---- MODULE Spec2Model ----
(***************************************************************************)
(* DocKeeper web client: the session context (AuthProvider), the auth and  *)
(* document API wrappers, and the dashboard view (Home).                   *)
(*                                                                         *)
(* One action is one run-to-completion piece of JavaScript: an event       *)
(* handler or effect up to its first await, or the continuation that runs  *)
(* when an awaited fetch settles.  React 18 batches the state setters of   *)
(* one such piece, so its assignments are one step.  The requests in       *)
(* flight are the bag `calls`; their responses are handled in any order.   *)
(***************************************************************************)
EXTENDS Integers, Sequences, FiniteSets, Bags, TLC

\* ------------------------------------------------------------ bounds
MaxInflight == 3          \* requests in flight at once
MaxFields == 2            \* fields per document (pure-function inputs)
MaxDocs == 2              \* documents per list (pure-function inputs)

\* ------------------------------------------------------------ values
NULL == "null"            \* JavaScript null / undefined / absent entry
Tokens == {"t1", "t2"}    \* access tokens the backend hands out
Creds == {"c1"}           \* {email, password} pairs typed into the forms
Terms == {"a"}         \* non-empty search texts
Details == {"d1"}         \* backend detail messages

\* GET /auth/me: the user the backend resolves a token to.
UserData(tok) ==
  IF tok = "t1" THEN [id |-> "u1", email |-> "e1"] ELSE [id |-> "u2", email |-> "e2"]

\* -------------------------------------------------- HTTP responses
\* A response: response.ok, whether response.json() can parse the body, and
\* the body's detail field (NULL when absent).
Responses ==
  {r \in [ok : BOOLEAN, parsable : BOOLEAN, detail : {NULL, ""} \cup Details] :
     ~r.parsable => r.detail = NULL}

\* The responses the backend gives the running application: success, or a
\* failure with a detail message.
OkResponse == [ok |-> TRUE, parsable |-> TRUE, detail |-> NULL]
AppResponses ==
  {OkResponse} \cup [ok : {FALSE}, parsable : {TRUE}, detail : Details]

AuthOps == {"login", "me", "signup"}
DocOps == {"process", "docs", "search", "categorize"}

Fallback(op) ==
  CASE op = "login" -> "Login failed"
    [] op = "me" -> "Failed to get user info"
    [] op = "signup" -> "Signup failed"
    [] op = "process" -> "Failed to process document"
    [] op = "docs" -> "Failed to fetch documents"
    [] op = "search" -> "Failed to search documents"
    [] OTHER -> "Failed to categorize fields"

\* response.json() rejecting on a body that is not JSON.
SyntaxErrorMsg == "SyntaxError: Unexpected token"

\* data.detail || fallback: a missing or empty detail is falsy.
DetailOr(detail, fallback) ==
  IF detail = NULL \/ detail = "" THEN fallback ELSE detail

Throw(m) == [threw |-> TRUE, msg |-> m]
Return == [threw |-> FALSE, msg |-> ""]

\* lib/auth.ts: login, getCurrentUser, signup.  The body is parsed before
\* response.ok is looked at.
AuthWrapper(op, r) ==
  IF ~r.parsable THEN Throw(SyntaxErrorMsg)
  ELSE IF ~r.ok THEN Throw(DetailOr(r.detail, Fallback(op)))
  ELSE Return

\* dockeeper-web lib/api.ts: processDocument, getDocuments, searchDocuments,
\* getCategorizedFields.  The body is parsed inside the !response.ok branch.
DocWrapper(op, r) ==
  IF ~r.ok
  THEN IF ~r.parsable THEN Throw(SyntaxErrorMsg)
       ELSE Throw(DetailOr(r.detail, Fallback(op)))
  ELSE IF ~r.parsable THEN Throw(SyntaxErrorMsg) ELSE Return

\* src/lib/api.ts: processDocument, getDocuments, searchDocuments.  The
\* body of a failed response is never read.
LibWrapper(op, r) ==
  IF ~r.ok THEN Throw(Fallback(op))
  ELSE IF ~r.parsable THEN Throw(SyntaxErrorMsg) ELSE Return

\* ---------------------------------------------------- session state
\* The session as one record: the three useState cells of AuthProvider and
\* the localStorage 'token' entry.
\* user === null, as a record so that users compare with each other.
NoUser == [id |-> NULL, email |-> NULL]

\* handleLogout without its localStorage.removeItem('token').
handleLogoutKeepStorage(s) ==
  [token |-> NULL, user |-> NoUser, isAuthenticated |-> FALSE,
   storage |-> s.storage]

\* handleLogout without its setToken(null).
handleLogoutKeepToken(s) ==
  [token |-> s.token, user |-> NoUser, isAuthenticated |-> FALSE,
   storage |-> NULL]

\* handleLogout without its setUser(null).
handleLogoutKeepUser(s) ==
  [token |-> NULL, user |-> s.user, isAuthenticated |-> FALSE, storage |-> NULL]

handleLogout(s) ==
  [token |-> NULL, user |-> NoUser, isAuthenticated |-> FALSE, storage |-> NULL]

\* A mount effect that removes the saved token once it has read it.
hydrateConsuming(s) ==
  IF s.storage # NULL
  THEN [s EXCEPT !.token = s.storage, !.isAuthenticated = TRUE,
                 !.storage = NULL]
  ELSE s

\* AuthProvider's mount effect: a saved token is taken over and the session
\* marked authenticated before the token is verified.
hydrate(s) ==
  IF s.storage # NULL
  THEN [s EXCEPT !.token = s.storage, !.isAuthenticated = TRUE]
  ELSE s

\* fetchUser's success path keeping the id only.
setUserIdOnly(s, userData) ==
  [s EXCEPT !.user = [id |-> userData.id, email |-> NULL]]

\* fetchUser's success path.
setUser(s, userData) ==
  [s EXCEPT !.user = [id |-> userData.id, email |-> userData.email]]

\* handleLogin after fetchUser resolved, without its localStorage.setItem.
loginCommitNoStorage(s, access_token) ==
  [s EXCEPT !.token = access_token, !.isAuthenticated = TRUE]

\* handleLogin after fetchUser resolved.
loginCommit(s, access_token) ==
  [s EXCEPT !.token = access_token, !.storage = access_token,
            !.isAuthenticated = TRUE]

\* --------------------------------------------------- backend data
\* A JSON object of a response is the sequence of its <<name, value>>
\* members in the order of the response text; `present` is FALSE for a
\* property the response leaves out.
Obj(members) == [present |-> TRUE, members |-> members]
Undefined == [present |-> FALSE, members |-> << >>]

DocA == [file_name |-> "a.pdf", pdf_url |-> "url-a",
         fields |-> Obj(<< <<"Name", "X">>, <<"Email", "y@z.com">> >>)]
DocB == [file_name |-> "b.pdf", pdf_url |-> NULL,
         fields |-> Obj(<< <<"DOB", "2000-01-01">> >>)]

\* GET /documents for the user of a token.
DocsOf(tok) == IF tok = "t1" THEN <<DocA, DocB>> ELSE <<DocB>>

\* GET /documents/search?query=q for the user of a token.
SearchOf(q, tok) ==
  << [field_name |-> "Hit", field_value |-> q, document_name |-> tok,
      pdf_url |-> NULL] >>

\* GET /documents/categorize for the user of a token.
CatsOf(tok) == [categories |-> << <<"Personal Information", tok>> >>]

NoCategories == [categories |-> << >>]

\* ------------------------------------------------- Extracted Info rows
\* The array index a property name is, or -1: "1" and "2" are the
\* integer-like names among the field names used here.
ArrayIndex(name) ==
  CASE name = "1" -> 1
    [] name = "2" -> 2
    [] OTHER -> -1

RECURSIVE Ascending(_)
Ascending(S) ==
  IF S = {} THEN << >>
  ELSE LET m == CHOOSE x \in S : \A y \in S : ArrayIndex(x[1]) <= ArrayIndex(y[1])
       IN <<m>> \o Ascending(S \ {m})

Range(q) == {q[k] : k \in DOMAIN q}

\* Object.entries(obj): the integer-like names in ascending numeric order,
\* then the other names in the order they were created.
ObjectEntries(members) ==
  LET IsIndex(m) == ArrayIndex(m[1]) >= 0
      NotIndex(m) == ArrayIndex(m[1]) < 0
  IN Ascending({m \in Range(members) : IsIndex(m)}) \o SelectSeq(members, NotIndex)

\* doc.fields || {}
OrEmpty(fields) == IF fields.present THEN fields.members ELSE << >>

\* Object.entries(doc.fields || {}).map(([field_name, field_value]) => ...)
DocRows(doc) ==
  LET e == ObjectEntries(OrEmpty(doc.fields))
  IN [k \in DOMAIN e |->
        [field_name |-> e[k][1], field_value |-> e[k][2],
         document_name |-> doc.file_name, pdf_url |-> doc.pdf_url]]

\* documents.flatMap(doc => ...)
RECURSIVE flatMap(_)
flatMap(docs) ==
  IF docs = << >> THEN << >> ELSE DocRows(Head(docs)) \o flatMap(Tail(docs))

\* The ternary of the rows with its branches exchanged.
RowsInverted(term, results, docs) ==
  IF term # "" THEN flatMap(docs) ELSE results

\* searchTerm ? searchResults : documents.flatMap(...)
Rows(term, results, docs) == IF term # "" THEN results ELSE flatMap(docs)

\* ------------------------------------------------------------ state
VARIABLES
  localStorage,       \* localStorage 'token' entry, NULL when absent
  token,              \* AuthProvider state
  user,               \* AuthProvider state
  isAuthenticated,    \* AuthProvider state
  mounted,            \* AuthProvider's mount effect has run
  searchTerm,         \* Home state
  searchResults,      \* Home state
  documents,          \* Home state
  error,              \* Home state
  isLoading,          \* Home state
  categorizedFields,  \* Home state
  calls,              \* bag of the requests in flight
  last,               \* history: the session step just taken
  verified,           \* history: tokens getCurrentUser resolved since the
                      \* session was last cleared
  searched,           \* history: the request searchResults came from
  arg,                \* the input of a function applied on its own
  ret                 \* its result

vars == <<localStorage, token, user, isAuthenticated, mounted, searchTerm,
          searchResults, documents, error, isLoading, categorizedFields,
          calls, last, verified, searched, arg, ret>>

sessionVars == <<localStorage, token, user, isAuthenticated>>
historyVars == <<verified, searched>>
pureVars == <<arg, ret>>

NoCall == [fn |-> "none"]
homeVars == <<searchTerm, searchResults, documents, error, isLoading,
              categorizedFields>>

Session ==
  [token |-> token, user |-> user, isAuthenticated |-> isAuthenticated,
   storage |-> localStorage]

Unauthenticated ==
  [token |-> NULL, user |-> NoUser, isAuthenticated |-> FALSE, storage |-> NULL]

SetSession(s) ==
  /\ token' = s.token
  /\ user' = s.user
  /\ isAuthenticated' = s.isAuthenticated
  /\ localStorage' = s.storage

\* A request in flight: the wrapper called, the Bearer token, the
\* credentials or search text sent, and the caller awaiting it.
Request(op, tok, cred, term, via) ==
  [op |-> op, tok |-> tok, cred |-> cred, term |-> term, via |-> via]

Settle(c) == calls (-) SetToBag({c})

RECURSIVE Issue(_, _)
Issue(b, q) ==
  IF q = << >> THEN b ELSE Issue(b (+) SetToBag({Head(q)}), Tail(q))

InFlight(op) == {c \in BagToSet(calls) : c.op = op}

\* Requests a call in flight may still lead to (a login that commits makes
\* Home fetch the documents and the categories).
Reserve(c) ==
  IF c.op \in {"login", "signup"} \/ (c.op = "me" /\ c.via # "hydrate")
  THEN 2 ELSE 1

RECURSIVE Load(_)
Load(S) ==
  IF S = {} THEN 0
  ELSE LET c == CHOOSE x \in S : TRUE
       IN CopiesIn(c, calls) * Reserve(c) + Load(S \ {c})

Room(n) == Load(BagToSet(calls)) + n <= MaxInflight

\* What the step just taken was: the handler or continuation that ran
\* ("home" for every step of the dashboard, which records the request it
\* handled for an upload only), the request whose response it handled, how the call ended ("none": still awaiting), the message
\* thrown, and the token of the request.
StepRec(act, stage, res, msg, tok) ==
  [act |-> act, stage |-> stage, res |-> res, msg |-> msg, tok |-> tok]

HomeStep == StepRec("home", NULL, "none", "", NULL)

NotSearched == [term |-> NULL, tok |-> NULL]

Outcome(w) == IF w.threw THEN "threw" ELSE "ok"

\* Home's effect on [isAuthenticated, token]: after a render in which either
\* changed, with both truthy, fetchDocuments and fetchCategorizedFields.
HomeEffect(old, new) ==
  IF /\ new.isAuthenticated
     /\ new.token # NULL
     /\ (new.isAuthenticated # old.isAuthenticated \/ new.token # old.token)
  THEN << Request("docs", new.token, NULL, NULL, "view"),
          Request("categorize", new.token, NULL, NULL, "view") >>
  ELSE << >>

\* The tab as it is loaded with `stored` in localStorage: nothing rendered
\* yet, nothing in flight.
Loaded(stored) ==
  /\ localStorage = stored
  /\ token = NULL
  /\ user = NoUser
  /\ isAuthenticated = FALSE
  /\ mounted = FALSE
  /\ searchTerm = ""
  /\ searchResults = << >>
  /\ documents = << >>
  /\ error = ""
  /\ isLoading = FALSE
  /\ categorizedFields = NoCategories
  /\ calls = EmptyBag
  /\ last = StepRec("init", NULL, "none", "", NULL)
  /\ verified = {}
  /\ searched = NotSearched

\* localStorage holds the token of an earlier visit, or nothing.
Init ==
  /\ \E stored \in {NULL, "t1"} : Loaded(stored)
  /\ arg = NoCall
  /\ ret = NoCall

\* ---------------------------------------------------- AuthProvider
\* useEffect(() => {...}, []) of AuthProvider, and the render of Home that
\* follows it.
Mount ==
  /\ ~mounted
  /\ mounted' = TRUE
  /\ LET s == hydrate(Session)
         me == IF localStorage # NULL
               THEN << Request("me", localStorage, NULL, NULL, "hydrate") >>
               ELSE << >>
     IN /\ SetSession(s)
        /\ calls' = Issue(calls, me \o HomeEffect(Session, s))
        /\ last' = StepRec("mount", NULL, "none", "", localStorage)
  /\ UNCHANGED <<homeVars, historyVars, pureVars>>

\* logout of the context.
logout ==
  /\ mounted
  /\ SetSession(handleLogout(Session))
  /\ last' = StepRec("logout", NULL, "ok", "", NULL)
  /\ verified' = {}
  /\ UNCHANGED <<mounted, calls, homeVars, searched, pureVars>>

\* The profile menu's Logout item, rendered in the dashboard.
Logout == isAuthenticated /\ logout

\* handleLoginSubmit / handleSignupSubmit up to the fetch of the first
\* request: setError(''), setIsLoading(true), then login or signup of the
\* context.
submit(act, op, cred) ==
  /\ mounted
  /\ Room(2)
  /\ error' = ""
  /\ isLoading' = TRUE
  /\ calls' = Issue(calls, << Request(op, NULL, cred, NULL, op) >>)
  /\ last' = StepRec(act, NULL, "none", "", NULL)
  /\ UNCHANGED <<searchTerm, searchResults, documents, categorizedFields>>
  /\ UNCHANGED <<mounted, sessionVars, historyVars, pureVars>>

\* The forms are rendered when not authenticated, disabled while isLoading.
FormEnabled == ~isAuthenticated /\ ~isLoading

HandleLoginSubmit(cred) == FormEnabled /\ submit("loginSubmit", "login", cred)

HandleSignupSubmit(cred) == FormEnabled /\ submit("signupSubmit", "signup", cred)

\* A catch of handleSignup that also logs out.
signupCatchLogout(s) == handleLogout(s)

\* handleSignup's catch: the error of auth.signup or of handleLogin is
\* re-thrown, the session is not touched.
signupCatch(s) == s

\* auth.signup settles inside handleSignup: on success handleLogin starts
\* with the same credentials; a failure is re-thrown to the submit handler,
\* whose catch sets the error and whose finally clears isLoading.
SignupResponse(c, r) ==
  /\ c \in InFlight("signup")
  /\ LET w == AuthWrapper("signup", r)
     IN IF ~w.threw
        THEN /\ calls' = Issue(Settle(c),
                               << Request("login", NULL, c.cred, NULL, "signup") >>)
             /\ last' = StepRec("signup", "signup", "none", "", NULL)
             /\ UNCHANGED <<error, isLoading, sessionVars>>
        ELSE /\ calls' = Settle(c)
             /\ SetSession(signupCatch(Session))
             /\ error' = w.msg
             /\ isLoading' = FALSE
             /\ last' = StepRec("signup", "signup", "threw", w.msg, NULL)
  /\ UNCHANGED <<searchTerm, searchResults, documents, categorizedFields>>
  /\ UNCHANGED <<mounted, historyVars, pureVars>>

\* auth.login settles inside handleLogin: on success fetchUser is called
\* with the returned access_token; on failure handleLogout and re-throw
\* (through handleSignup's catch when signup called handleLogin).
LoginResponse(c, r) ==
  /\ c \in InFlight("login")
  /\ LET w == AuthWrapper("login", r)
     IN IF ~w.threw
        THEN \E access_token \in Tokens :
             /\ calls' = Issue(Settle(c),
                               << Request("me", access_token, c.cred, NULL, c.via) >>)
             /\ last' = StepRec(c.via, "login", "none", "", access_token)
             /\ UNCHANGED <<error, isLoading, sessionVars, verified>>
        ELSE /\ calls' = Settle(c)
             /\ SetSession(IF c.via = "signup"
                           THEN signupCatch(handleLogout(Session))
                           ELSE handleLogout(Session))
             /\ error' = w.msg
             /\ isLoading' = FALSE
             /\ last' = StepRec(c.via, "login", "threw", w.msg, NULL)
             /\ verified' = {}
  /\ UNCHANGED <<searchTerm, searchResults, documents, categorizedFields>>
  /\ UNCHANGED <<mounted, searched, pureVars>>

\* fetchUser and its callers without their catch blocks' handleLogout.
afterFetchUserKeep(s, c, w) ==
  IF w.threw THEN s
  ELSE IF c.via = "hydrate" THEN setUser(s, UserData(c.tok))
  ELSE loginCommit(setUser(s, UserData(c.tok)), c.tok)

\* The session after auth.getCurrentUser settled inside fetchUser.  Called
\* from the mount effect: setUser, or handleLogout in fetchUser's catch and
\* again in the effect's .catch.  Called from handleLogin: setUser and the
\* commit, or handleLogout in fetchUser's catch and again in handleLogin's.
afterFetchUser(s, c, w) ==
  IF w.threw THEN handleLogout(handleLogout(s))
  ELSE IF c.via = "hydrate" THEN setUser(s, UserData(c.tok))
  ELSE loginCommit(setUser(s, UserData(c.tok)), c.tok)

\* auth.getCurrentUser settles.  The mount effect swallows a failure; the
\* login flow re-throws it to the submit handler.
MeResponse(c, r) ==
  /\ c \in InFlight("me")
  /\ LET w == AuthWrapper("me", r)
         s == IF c.via = "signup"
              THEN signupCatch(afterFetchUser(Session, c, w))
              ELSE afterFetchUser(Session, c, w)
     IN /\ SetSession(s)
        /\ calls' = Issue(Settle(c), HomeEffect(Session, s))
        /\ last' = StepRec(c.via, "me", Outcome(w), w.msg, c.tok)
        /\ verified' = IF w.threw THEN {} ELSE verified \cup {c.tok}
        /\ IF c.via = "hydrate"
           THEN UNCHANGED <<error, isLoading>>
           ELSE /\ error' = IF w.threw THEN w.msg ELSE error
                /\ isLoading' = FALSE
  /\ UNCHANGED <<searchTerm, searchResults, documents, categorizedFields>>
  /\ UNCHANGED <<mounted, searched, pureVars>>

\* ------------------------------------------------------------ Home
\* The dashboard is rendered only when isAuthenticated.
Dashboard == mounted /\ isAuthenticated

\* onChange of the search input.
SetSearchTerm(q) ==
  /\ Dashboard
  /\ q # searchTerm
  /\ searchTerm' = q
  /\ last' = HomeStep
  /\ UNCHANGED <<searchResults, documents, error, isLoading, categorizedFields>>
  /\ UNCHANGED <<mounted, sessionVars, calls, historyVars, pureVars>>

\* A handler of Home that guards on the token and then fetches: throws
\* 'Not authenticated' into its own catch, or issues the request.
Fetch(req) ==
  /\ Dashboard
  /\ Room(1)
  /\ IF token = NULL
     THEN /\ error' = "Not authenticated"
          /\ UNCHANGED calls
     ELSE /\ calls' = Issue(calls, <<req>>)
          /\ UNCHANGED error
  /\ last' = HomeStep
  /\ UNCHANGED <<searchTerm, searchResults, documents, isLoading,
                 categorizedFields>>
  /\ UNCHANGED <<mounted, sessionVars, historyVars, pureVars>>

\* handleSearch up to the fetch (the Search button, or Enter in the input).
HandleSearch ==
  Fetch(Request("search", token, NULL, searchTerm, "view"))

\* handleFileUpload up to the fetch (a file chosen in the upload sheet).
HandleFileUpload ==
  Fetch(Request("process", token, NULL, NULL, "view"))

\* fetchCategorizedFields up to the fetch (the Refresh Categories button,
\* disabled while isLoading).
RefreshCategories ==
  /\ ~isLoading
  /\ Fetch(Request("categorize", token, NULL, NULL, "view"))

\* A handleFileUpload without its fetchDocuments().
ProcessResponseNoRefetch(c, r) ==
  /\ c \in InFlight("process")
  /\ LET w == DocWrapper("process", r)
     IN /\ calls' = Settle(c)
        /\ error' = IF w.threw THEN w.msg ELSE error
        /\ last' = StepRec("home", "process", Outcome(w), w.msg, c.tok)
  /\ UNCHANGED <<searchTerm, searchResults, documents, isLoading,
                 categorizedFields>>
  /\ UNCHANGED <<mounted, sessionVars, historyVars, pureVars>>

\* api.processDocument settles inside handleFileUpload: on success
\* fetchDocuments of the render the upload started in is called.
ProcessResponse(c, r) ==
  /\ c \in InFlight("process")
  /\ LET w == DocWrapper("process", r)
         issued == IF w.threw THEN << >>
                   ELSE << Request("docs", c.tok, NULL, NULL, "view") >>
     IN /\ calls' = Issue(Settle(c), issued)
        /\ error' = IF w.threw THEN w.msg ELSE error
        /\ last' = StepRec("home", "process", Outcome(w), w.msg, c.tok)
  /\ UNCHANGED <<searchTerm, searchResults, documents, isLoading,
                 categorizedFields>>
  /\ UNCHANGED <<mounted, sessionVars, historyVars, pureVars>>

\* A fetchDocuments whose catch logs out when the request was rejected.
DocsResponseLogout(c, r) ==
  /\ c \in InFlight("docs")
  /\ LET w == DocWrapper("docs", r)
     IN /\ calls' = Settle(c)
        /\ documents' = IF w.threw THEN documents ELSE DocsOf(c.tok)
        /\ error' = IF w.threw THEN w.msg ELSE error
        /\ IF w.threw THEN SetSession(handleLogout(Session))
           ELSE UNCHANGED sessionVars
  /\ last' = HomeStep
  /\ UNCHANGED <<searchTerm, searchResults, isLoading, categorizedFields>>
  /\ UNCHANGED <<mounted, historyVars, pureVars>>

\* api.getDocuments settles inside fetchDocuments.
DocsResponse(c, r) ==
  /\ c \in InFlight("docs")
  /\ LET w == DocWrapper("docs", r)
     IN /\ calls' = Settle(c)
        /\ documents' = IF w.threw THEN documents ELSE DocsOf(c.tok)
        /\ error' = IF w.threw THEN w.msg ELSE error
  /\ last' = HomeStep
  /\ UNCHANGED <<searchTerm, searchResults, isLoading, categorizedFields>>
  /\ UNCHANGED <<mounted, sessionVars, historyVars, pureVars>>

\* setSearchResults(data) of handleSearch.
setSearchResults(results, data) == data

\* api.searchDocuments settles inside handleSearch.
SearchResponse(c, r) ==
  /\ c \in InFlight("search")
  /\ LET w == DocWrapper("search", r)
     IN /\ calls' = Settle(c)
        /\ searchResults' = IF w.threw THEN searchResults
                            ELSE setSearchResults(searchResults,
                                                  SearchOf(c.term, c.tok))
        /\ searched' = IF w.threw THEN searched
                       ELSE [term |-> c.term, tok |-> c.tok]
        /\ error' = IF w.threw THEN w.msg ELSE error
  /\ last' = HomeStep
  /\ UNCHANGED <<searchTerm, documents, isLoading, categorizedFields>>
  /\ UNCHANGED <<mounted, sessionVars, verified, pureVars>>

\* api.getCategorizedFields settles inside fetchCategorizedFields.
CategorizeResponse(c, r) ==
  /\ c \in InFlight("categorize")
  /\ LET w == DocWrapper("categorize", r)
     IN /\ calls' = Settle(c)
        /\ categorizedFields' = IF w.threw THEN categorizedFields
                                ELSE CatsOf(c.tok)
        /\ error' = IF w.threw THEN w.msg ELSE error
  /\ last' = HomeStep
  /\ UNCHANGED <<searchTerm, searchResults, documents, isLoading>>
  /\ UNCHANGED <<mounted, sessionVars, historyVars, pureVars>>

\* The rows of the Extracted Info tab as rendered from the current state.
DisplayedRows == Rows(searchTerm, searchResults, documents)

\* ------------------------------------------------- the application
\* Home inside AuthProvider, driven by what the rendered page lets the user
\* do and by the responses of the backend.
Next ==
  \/ Mount
  \/ Logout
  \/ \E cred \in Creds : HandleLoginSubmit(cred)
  \/ \E cred \in Creds : HandleSignupSubmit(cred)
  \/ \E q \in Terms \cup {""} : SetSearchTerm(q)
  \/ HandleSearch
  \/ HandleFileUpload
  \/ RefreshCategories
  \/ \E c \in BagToSet(calls), r \in AppResponses : SignupResponse(c, r)
  \/ \E c \in BagToSet(calls), r \in AppResponses : LoginResponse(c, r)
  \/ \E c \in BagToSet(calls), r \in AppResponses : MeResponse(c, r)
  \/ \E c \in BagToSet(calls), r \in AppResponses : ProcessResponse(c, r)
  \/ \E c \in BagToSet(calls), r \in AppResponses : DocsResponse(c, r)
  \/ \E c \in BagToSet(calls), r \in AppResponses : SearchResponse(c, r)
  \/ \E c \in BagToSet(calls), r \in AppResponses : CategorizeResponse(c, r)

Spec == Init /\ [][Next]_vars

\* ------------------------------------------- the context on its own
\* The context's login, signup and logout called by a consumer in any
\* state, whatever is in flight.
ConsumerLogin(cred) == submit("loginSubmit", "login", cred)

ConsumerSignup(cred) == submit("signupSubmit", "signup", cred)

ConsumerLogout == logout

NextContext ==
  \/ Mount
  \/ ConsumerLogout
  \/ \E cred \in Creds : ConsumerLogin(cred)
  \/ \E cred \in Creds : ConsumerSignup(cred)
  \/ \E c \in BagToSet(calls), r \in AppResponses : SignupResponse(c, r)
  \/ \E c \in BagToSet(calls), r \in AppResponses : LoginResponse(c, r)
  \/ \E c \in BagToSet(calls), r \in AppResponses : MeResponse(c, r)
  \/ \E c \in BagToSet(calls), r \in AppResponses : DocsResponse(c, r)
  \/ \E c \in BagToSet(calls), r \in AppResponses : CategorizeResponse(c, r)

SpecContext == Init /\ [][NextContext]_vars

\* ------------------------------------------- the wrappers on their own
\* The three wrapper modules and the operations each exports.
WrapperOps(lib) ==
  CASE lib = "lib/auth" -> AuthOps
    [] lib = "dockeeper-web/lib/api" -> DocOps
    [] OTHER -> {"process", "docs", "search"}

Wrapper(lib, op, r) ==
  CASE lib = "lib/auth" -> AuthWrapper(op, r)
    [] lib = "dockeeper-web/lib/api" -> DocWrapper(op, r)
    [] OTHER -> LibWrapper(op, r)

WrapperCalls ==
  {a \in [fn : {"wrapper"},
          lib : {"lib/auth", "dockeeper-web/lib/api", "src/lib/api"},
          op : AuthOps \cup DocOps, r : Responses] : a.op \in WrapperOps(a.lib)}

InitWrappers ==
  /\ Loaded(NULL)
  /\ arg \in WrapperCalls
  /\ ret = NoCall

\* One wrapper called with one response of the backend.
CallWrapper ==
  /\ arg.fn = "wrapper"
  /\ ret.fn = "none"
  /\ ret' = [fn |-> "wrapper", out |-> Wrapper(arg.lib, arg.op, arg.r)]
  /\ UNCHANGED <<sessionVars, homeVars, historyVars, mounted, calls, last, arg>>

NextWrappers == CallWrapper

SpecWrappers == InitWrappers /\ [][NextWrappers]_vars

\* --------------------------------------- the rows tab on its own
FieldNames == {"Name", "1", "2"}

FieldValue(name) == IF name = "Name" THEN "X" ELSE "v" \o name

\* The member lists of a fields object: distinct names, at most MaxFields.
MemberLists ==
  UNION {{[k \in 1..n |-> <<f[k], FieldValue(f[k])>>] :
            f \in {g \in [1..n -> FieldNames] :
                     \A i, j \in 1..n : i # j => g[i] # g[j]}} :
         n \in 0..MaxFields}

DocPool ==
  {[file_name |-> "a.pdf", pdf_url |-> "url-a", fields |-> f] :
     f \in {Undefined} \cup {Obj(m) : m \in MemberLists}}
  \cup {[file_name |-> "b.pdf", pdf_url |-> NULL, fields |-> Obj(m)] :
          m \in MemberLists}

DocLists == UNION {[1..n -> DocPool] : n \in 0..MaxDocs}

InitRows ==
  /\ \E docs \in DocLists, term \in Terms \cup {""} :
       /\ documents = docs
       /\ searchTerm = term
  /\ searchResults = << >>
  /\ localStorage = "t1"
  /\ token = "t1"
  /\ user = UserData("t1")
  /\ isAuthenticated = TRUE
  /\ mounted = TRUE
  /\ error = ""
  /\ isLoading = FALSE
  /\ categorizedFields = NoCategories
  /\ calls = EmptyBag
  /\ last = HomeStep
  /\ verified = {"t1"}
  /\ searched = NotSearched
  /\ arg = [fn |-> "rows"]
  /\ ret = NoCall

\* One render of the Extracted Info tab.
Render ==
  /\ arg.fn = "rows"
  /\ ret.fn = "none"
  /\ ret' = [fn |-> "rows", out |-> DisplayedRows]
  /\ UNCHANGED <<sessionVars, homeVars, historyVars, mounted, calls, last, arg>>

NextRows == Render

SpecRows == InitRows /\ [][NextRows]_vars

\* ============================================================ claims
\* The steps of a login(email, password) call of the context, made directly
\* or by signup after the backend signup succeeded.
LoginStep == last.act \in {"login", "signup"} /\ last.stage \in {"login", "me"}

\* C1: in every reachable state isAuthenticated is true iff token is
\* non-null and a getCurrentUser call has resolved for that token since the
\* session was last cleared; the states between the start of the startup
\* hydration and its response are included.
AuthenticatedIffVerified ==
  isAuthenticated <=> (token # NULL /\ token \in verified)

\* C2: when auth.login or the getCurrentUser that follows it fails inside a
\* login call, the session is exactly Unauthenticated when the call returns
\* (token null, user null, isAuthenticated false, no storage entry),
\* whatever it was before, and the caller catches the error that was thrown.
FailedLoginClearsSession ==
  (LoginStep /\ last.res = "threw") =>
    /\ Session = Unauthenticated
    /\ error = last.msg
    /\ last.msg \in Details

\* A getCurrentUser failed inside a login call while another call of the
\* context is still awaiting its response.
FailedLoginReached ==
  /\ last.act = "login"
  /\ last.stage = "me"
  /\ last.res = "threw"
  /\ InFlight("login") \cup InFlight("me") # {}

\* C3: when a login call resolves (auth.login succeeded, getCurrentUser with
\* the returned access_token succeeded), the session is Authenticated with
\* token = access_token, localStorage holding the same token, and user the
\* {id, email} getCurrentUser returned for it.
LoginCommitsVerifiedToken ==
  (LoginStep /\ last.stage = "me" /\ last.res = "ok") =>
    /\ isAuthenticated
    /\ token = last.tok
    /\ localStorage = last.tok
    /\ user = [id |-> UserData(last.tok).id, email |-> UserData(last.tok).email]

\* A login resolved with a token other than the one storage started with.
LoginResolvedReached ==
  /\ last.act = "login"
  /\ last.stage = "me"
  /\ last.res = "ok"
  /\ last.tok = "t2"

\* C4: logout called in any session state leaves token null, user null,
\* isAuthenticated false and no storage entry, and a second logout gives
\* the same state.
LogoutClearsAndIsIdempotent ==
  /\ last.act = "logout" =>
       /\ Session = Unauthenticated
       /\ handleLogout(Session) = Session
  /\ handleLogout(handleLogout(Session)) = handleLogout(Session)

\* logout was called while a verification was in flight.
LogoutWhileVerifyingReached ==
  /\ last.act = "logout"
  /\ InFlight("me") # {}

\* C5: when the getCurrentUser of the startup hydration fails, the session
\* is Unauthenticated once the response has been handled: token null, user
\* null, isAuthenticated false, storage entry removed.
FailedHydrationClearsSession ==
  (last.act = "hydrate" /\ last.stage = "me" /\ last.res = "threw") =>
    Session = Unauthenticated

\* The verification of the stored token failed.
FailedHydrationReached ==
  /\ last.act = "hydrate"
  /\ last.res = "threw"
  /\ last.tok = "t1"

SignupLogins(b) == {c \in BagToSet(b) : c.via = "signup" /\ c.op \in {"login", "me"}}

\* C7: signup calls the backend signup first and starts the login sequence
\* only when it succeeded; when the backend signup fails no login or
\* getCurrentUser request is issued, token, user, isAuthenticated and
\* localStorage are unchanged and the caller catches the error; when the
\* login stage fails the caller catches the error and token, user and
\* isAuthenticated are not set.
SignupThenLogin ==
  [][/\ (last'.act = "signup" /\ last'.stage = "signup" /\ last'.res = "threw") =>
          /\ UNCHANGED sessionVars
          /\ error' = last'.msg
          /\ \A c \in BagToSet(calls') :
               c.op \in {"login", "me"} => CopiesIn(c, calls') <= CopiesIn(c, calls)
     /\ (last'.act = "signup" /\ last'.stage \in {"login", "me"}
           /\ last'.res = "threw") =>
          /\ token' = NULL
          /\ user' = NoUser
          /\ ~isAuthenticated'
          /\ error' = last'.msg
     /\ (\E c \in SignupLogins(calls') :
           c.op = "login" /\ CopiesIn(c, calls') > CopiesIn(c, calls)) =>
          /\ last'.act = "signup"
          /\ last'.stage = "signup"
          /\ last'.res = "none"]_vars

\* The backend signup failed for a caller whose session is authenticated,
\* and left it so.
SignupFailedReached ==
  /\ last.act = "signup"
  /\ last.stage = "signup"
  /\ last.res = "threw"
  /\ isAuthenticated
  /\ token # NULL

\* C8: every API wrapper, given a response that is not successful, throws
\* an error whose message is the body's detail field when the body has
\* one and the operation's fixed fallback string otherwise, a body that
\* cannot be parsed included.
WrapperThrowsDetailOrFallback ==
  (ret.fn = "wrapper" /\ ~arg.r.ok) =>
    /\ ret.out.threw
    /\ ret.out.msg = IF arg.r.detail # NULL THEN arg.r.detail
                     ELSE Fallback(arg.op)

\* C9: with an empty search text the rows are the flattening of documents:
\* for each document in list order and each entry of its fields in the
\* order the backend returned them, one row {field_name, field_value,
\* document_name, pdf_url}; as many rows as the documents have fields, and
\* none for a document without fields.
RowsFlattenInBackendOrder ==
  LET RowsOf(doc) ==
        LET m == OrEmpty(doc.fields)
        IN [k \in DOMAIN m |->
              [field_name |-> m[k][1], field_value |-> m[k][2],
               document_name |-> doc.file_name, pdf_url |-> doc.pdf_url]]
      RECURSIVE Flatten(_)
      Flatten(docs) ==
        IF docs = << >> THEN << >> ELSE RowsOf(Head(docs)) \o Flatten(Tail(docs))
  IN (ret.fn = "rows" /\ searchTerm = "") => ret.out = Flatten(documents)

\* C10 as stated: whenever the search text is non-empty, the rows are the
\* backend's searchDocuments result for that text, unmodified.
RowsAreResultForSearchTerm ==
  (Dashboard /\ searchTerm # "") => DisplayedRows = SearchOf(searchTerm, token)

\* C10, amended: whenever the search text is non-empty, the rows are the
\* unmodified result of the searchDocuments response that was received
\* last among the successful ones, for the text and the token of its own
\* request, and no rows before the first such response; that text need not
\* be the text now in the search box.
RowsAreLastReceivedResult ==
  searchTerm # "" =>
    DisplayedRows = IF searched = NotSearched THEN << >>
                    ELSE SearchOf(searched.term, searched.tok)

\* The search box holds a text other than the one the rows were searched
\* with.
StaleRowsReached ==
  /\ Dashboard
  /\ searchTerm # ""
  /\ searched # NotSearched
  /\ searched.term # searchTerm
  /\ DisplayedRows = SearchOf(searched.term, searched.tok)

\* C11: token, isAuthenticated and the storage entry are set by a login
\* call only after getCurrentUser resolved for the access_token auth.login
\* returned, and in no reachable state is the session Authenticated with a
\* token for which getCurrentUser has not returned a user.
CommitOnlyAfterVerification ==
  /\ isAuthenticated => token \in verified
  /\ (LoginStep /\ last.res = "none") =>
       (token # last.tok \/ token \in verified)

\* The step just taken wrote, or removed, the storage entry.
StorageWritten == localStorage' # localStorage /\ localStorage' # NULL
StorageRemoved == localStorage' # localStorage /\ localStorage' = NULL

\* The step just taken is the commit of a login whose getCurrentUser
\* resolved.
CommitStep ==
  /\ last'.act \in {"login", "signup"}
  /\ last'.stage = "me"
  /\ last'.res = "ok"

\* C12 as stated: the storage entry is written only by the commit step of a
\* login whose getCurrentUser succeeded, and removed only by logout or by a
\* failure of getCurrentUser, so that a login rejected by auth.login leaves
\* a stored token in place; it is read only by the startup hydration.
StorageRemovedOnlyByLogoutOrVerification ==
  [][/\ StorageWritten => (CommitStep /\ localStorage' = last'.tok)
     /\ StorageRemoved =>
          \/ last'.act = "logout"
          \/ (last'.stage = "me" /\ last'.res = "threw")
     /\ (last'.act # "mount" /\ token' # token) =>
          (token' = NULL \/ (CommitStep /\ token' = last'.tok))]_vars

\* C12, amended: the storage entry is written only by the commit step of a
\* login whose getCurrentUser succeeded; it is removed only by logout and
\* by a failure inside a login call or of the startup verification, a
\* rejection by auth.login included, which removes a stored token as well;
\* a failure of the backend signup leaves it; outside the mount effect the
\* token of the session never comes from storage.
StorageDiscipline ==
  [][/\ StorageWritten => (CommitStep /\ localStorage' = last'.tok)
     /\ StorageRemoved =>
          \/ last'.act = "logout"
          \/ (last'.stage \in {"login", "me"} /\ last'.res = "threw")
     /\ (last'.act # "mount" /\ token' # token) =>
          (token' = NULL \/ (CommitStep /\ token' = last'.tok))]_vars

\* auth.login rejected a login that was called while the verification of
\* the stored token was still in flight: the entry is gone.
LoginRejectedReached ==
  /\ last.act = "login"
  /\ last.stage = "login"
  /\ last.res = "threw"
  /\ localStorage = NULL
  /\ \E c \in InFlight("me") : c.via = "hydrate"

\* C13: token, user, isAuthenticated and the storage entry are changed only
\* by login, signup, logout and the startup hydration with its
\* verification; every step of upload, list, search and categorize leaves
\* them unchanged, whether the request succeeded or was rejected.
DashboardLeavesSession ==
  [][/\ last'.act = "home" => UNCHANGED sessionVars
     /\ ~(UNCHANGED sessionVars) =>
          last'.act \in {"mount", "hydrate", "login", "signup", "logout"}]_vars

\* A request of the dashboard was rejected and the session is still
\* Authenticated with its token stored.
RejectedRequestReached ==
  /\ last = HomeStep
  /\ error \in Details
  /\ isAuthenticated
  /\ token # NULL
  /\ localStorage = token

\* The number of requests of one operation in flight.
InFlightCount(op) ==
  BagCardinality([c \in InFlight(op) |-> CopiesIn(c, calls)])

\* C14: for each of login, signup, upload, list-documents, search and
\* categorize, at most one request of the operation is in flight at any
\* time, whatever the user does with the rendered page.
OneRequestPerOperation ==
  \A op \in {"login", "signup", "process", "docs", "search", "categorize"} :
    InFlightCount(op) <= 1

\* C15: when getCurrentUser fails, in the startup hydration or inside a
\* login, the failure is caught: the session is logged out and the error
\* string of the view is the message of the failure, so the banner shows.
VerificationFailureShown ==
  (last.stage = "me" /\ last.res = "threw") =>
    /\ Session = Unauthenticated
    /\ error # ""
    /\ error = last.msg

\* The getDocuments request of a token.
DocsRequest(tok) == Request("docs", tok, NULL, NULL, "view")

\* The step just taken issued a getDocuments request.
DocsIssued ==
  \E c \in BagToSet(calls') :
    c.op = "docs" /\ CopiesIn(c, calls') > CopiesIn(c, calls)

\* C16: an upload whose processDocument succeeded issues a getDocuments
\* request with the token of the upload, and documents is the result of
\* that request once its response is handled; an upload whose
\* processDocument failed issues no getDocuments request, leaves documents
\* unchanged and sets the error string to the message of the failure.
UploadRefetches ==
  [][/\ (last'.stage = "process" /\ last'.res = "ok") =>
          /\ CopiesIn(DocsRequest(last'.tok), calls')
               = CopiesIn(DocsRequest(last'.tok), calls) + 1
          /\ UNCHANGED <<documents, error>>
     /\ (last'.stage = "process" /\ last'.res = "threw") =>
          /\ ~DocsIssued
          /\ UNCHANGED documents
          /\ error' = last'.msg
          /\ error' \in Details \cup {Fallback("process")}
     /\ \A c \in InFlight("docs") :
          (CopiesIn(c, calls') < CopiesIn(c, calls) /\ documents' # documents) =>
            documents' = DocsOf(c.tok)]_vars

\* An upload succeeded after the session it was started in had ended: the
\* getDocuments request in flight carries the token of the upload.
UploadRefetchReached ==
  /\ last.stage = "process"
  /\ last.res = "ok"
  /\ DocsRequest(last.tok) \in BagToSet(calls)
  /\ token # last.tok

\* C17: in every reachable state where token and user are both non-null,
\* user is the record getCurrentUser returns for the current token, however
\* verifications, logouts and logins interleave.
UserBelongsToToken ==
  (token # NULL /\ user # NoUser) =>
    user = [id |-> UserData(token).id, email |-> UserData(token).email]

\* C18: a session that is Authenticated with a verified token in storage
\* stays so until logout is called, a later login commits another token,
\* or a later login or signup fails; a failure of a verification that was
\* issued before the login (the getCurrentUser of the startup hydration for
\* the old stored token) does not clear it.
CommittedSessionSurvivesLateFailure ==
  [][(isAuthenticated /\ token \in verified /\ localStorage = token) =>
       \/ isAuthenticated' /\ token' = token /\ localStorage' = token
       \/ last'.act = "logout"
       \/ CommitStep
       \/ /\ last'.act \in {"login", "signup"}
          /\ last'.res = "threw"]_vars

\* C19: once the mount effect has run, after every step of login, signup,
\* logout and the handling of a verification the storage entry equals the
\* token of the session: both absent, or the same string.
StorageAgreesWithToken ==
  mounted => localStorage = token

\* A login committed a token other than the one storage started with,
\* while another call of the context is still in flight.
CommittedTokenStoredReached ==
  /\ mounted
  /\ last.stage = "me"
  /\ last.res = "ok"
  /\ token = "t2"
  /\ localStorage = "t2"
  /\ InFlight("login") \cup InFlight("me") \cup InFlight("signup") # {}

\* C20: whenever the dashboard is shown, documents, searchResults and
\* categorizedFields are each empty or the result of a request issued with
\* the token of the current session; what was fetched with a token that has
\* been logged out since is not displayed to a later session.
DashboardShowsOwnData ==
  Dashboard =>
    /\ documents = << >> \/ (token # NULL /\ documents = DocsOf(token))
    /\ searchResults = << >> \/ searched.tok = token
    /\ \/ categorizedFields = NoCategories
       \/ (token # NULL /\ categorizedFields = CatsOf(token))

====
